---- MODULE Spec2Model ----
(***************************************************************************)
(* Model of the IMU adapter ZBotIMU (runtime/kos_platform/src/imu.rs): one *)
(* Bno055 chip driver behind a tokio Mutex, and the five operations of the *)
(* IMU trait invoked by concurrent callers.  Each caller is at one program *)
(* position (pc); the chip driver is the environment: every driver call    *)
(* has a start and an end, and may succeed or fail.                        *)
(***************************************************************************)
EXTENDS Integers, Sequences, FiniteSets, TLC

\* number of concurrent callers of one adapter
NumProcs == 2

Procs == 1..NumProcs

\* Option<T>: None is the empty sequence, Some(x) the one-element sequence
None == <<>>
Some(x) == <<x>>

----------------------------------------------------------------------------
\* f32 and f64 as IEEE-754 bit fields.  An f32 is [s, e, f] with an 8 bit
\* exponent and a 23 bit fraction; an f64 is [s, e, hi, lo] with an 11 bit
\* exponent and a 52 bit fraction split in its 23 high and 29 low bits.

\* a non-zero subnormal fraction f shifted left until bit 23 (the hidden bit,
\* 8388608 = 2^23) is set: <<the shifted fraction, the number of shifts>>
RECURSIVE Normalize(_, _)
Normalize(f, k) == IF f >= 8388608 THEN <<f, k>> ELSE Normalize(2 * f, k + 1)

\* `x as f64` for x: f32 (infinities and NaNs, zeros, subnormals, normals)
AsF64(x) ==
    IF x.e = 255 THEN [s |-> x.s, e |-> 2047, hi |-> x.f, lo |-> 0]
    ELSE IF x.e = 0 /\ x.f = 0 THEN [s |-> x.s, e |-> 0, hi |-> 0, lo |-> 0]
    ELSE IF x.e = 0
         THEN LET n == Normalize(x.f, 0)
              IN  [s |-> x.s, e |-> 1023 - 126 - n[2], hi |-> n[1] - 8388608, lo |-> 0]
    ELSE [s |-> x.s, e |-> x.e - 127 + 1023, hi |-> x.f, lo |-> 0]

\* the literal 0.0 of type f64
ZeroF64 == [s |-> 0, e |-> 0, hi |-> 0, lo |-> 0]

\* the real number an f32 denotes: <<sign, m, k>> stands for
\* (-1)^sign * m * 2^k, with m odd or zero (finite values only)
RECURSIVE Reduce(_, _, _)
Reduce(s, m, k) ==
    IF m = 0 THEN <<s, 0, 0>>
    ELSE IF m % 2 = 0 THEN Reduce(s, m \div 2, k + 1)
    ELSE <<s, m, k>>

Val32(x) == IF x.e = 0 THEN Reduce(x.s, x.f, -149)
            ELSE Reduce(x.s, 8388608 + x.f, x.e - 150)

\* the real number an f64 denotes, in the same form; mantissas here have at
\* most 24 significant bits above the low 29, which must then be zero
Val64(y) == IF y.lo # 0 THEN <<"inexact", y.hi, y.lo>>
            ELSE IF y.e = 0 THEN Reduce(y.s, y.hi, -1045)
            ELSE Reduce(y.s, 8388608 + y.hi, y.e - 1046)

\* sample f32 values
F1_0    == [s |-> 0, e |-> 127, f |-> 0]         \*  1.0
Fm2_5   == [s |-> 1, e |-> 128, f |-> 2097152]   \* -2.5
F9_75   == [s |-> 0, e |-> 130, f |-> 1835008]   \*  9.75
F0_0    == [s |-> 0, e |-> 0,   f |-> 0]         \*  0.0
Fsub    == [s |-> 0, e |-> 0,   f |-> 3]         \*  3 * 2^-149
Fm0_5   == [s |-> 1, e |-> 126, f |-> 0]         \* -0.5

AccelSamples == { [x |-> F1_0, y |-> Fm2_5, z |-> Fsub],
                  [x |-> F0_0, y |-> Fm0_5, z |-> F9_75] }
EulerSamples == { [roll |-> Fm0_5, pitch |-> F1_0, yaw |-> F9_75],
                  [roll |-> Fsub, pitch |-> Fm2_5, yaw |-> F0_0] }
QuatSamples  == { [w |-> F1_0, x |-> F0_0, y |-> Fm0_5, z |-> Fsub],
                  [w |-> Fm0_5, x |-> F9_75, y |-> F1_0, z |-> Fm2_5] }

\* errors of the chip driver, and what their Display writes
DrvErrors == {[desc |-> "i2c: remote I/O error"], [desc |-> "i2c: timed out"]}
Display(e) == e.desc

\* operating modes of the chip: NDOF fusion mode, and the unconfigured
\* mode the chip is in after a reset
Modes == {"Ndof", "Config"}

----------------------------------------------------------------------------
\* The IMU trait

ReadOps == {"get_values", "get_euler", "get_quaternion"}
Ops == ReadOps \cup {"calibrate", "zero"}

\* the driver call a read operation forwards to
ReadFn(o) == CASE o = "get_values" -> "get_linear_acceleration"
               [] o = "get_euler" -> "get_euler_angles"
               [] o = "get_quaternion" -> "get_quaternion"

DrvOutputs(fn) == CASE fn = "get_linear_acceleration" -> AccelSamples
                    [] fn = "get_euler_angles" -> EulerSamples
                    [] fn = "get_quaternion" -> QuatSamples

DrvFns == {"get_linear_acceleration", "get_euler_angles", "get_quaternion",
           "reset", "set_mode"}

\* arguments of zero(duration, max_retries, max_angular_error, max_vel, max_accel)
ZeroArgs == { [duration |-> None, max_retries |-> None, max_angular_error |-> None,
               max_vel |-> None, max_accel |-> None],
              [duration |-> Some(1), max_retries |-> Some(2), max_angular_error |-> Some(1),
               max_vel |-> Some(1), max_accel |-> Some(1)] }
NoArgs == [duration |-> None, max_retries |-> None, max_angular_error |-> None,
           max_vel |-> None, max_accel |-> None]
ArgsOf(o) == IF o = "zero" THEN ZeroArgs ELSE {NoArgs}

\* operations whose body starts with self.imu.lock().await
NeedsLock(o) == o \in ReadOps \cup {"zero"}

\* Result<T>: Ok(value) or Err(report carrying the driver's error)
Ok(v) == [tag |-> "Ok", val |-> v]
Err(e) == [tag |-> "Err", val |-> e]
NoResult == [tag |-> "none"]

\* format!("<prefix>{}", e)
Format(prefix, e) == <<prefix, Display(e)>>

ImuValuesResponse(accel) ==
    [accel_x |-> AsF64(accel.x), accel_y |-> AsF64(accel.y), accel_z |-> AsF64(accel.z),
     gyro_x |-> ZeroF64, gyro_y |-> ZeroF64, gyro_z |-> ZeroF64,
     mag_x |-> None, mag_y |-> None, mag_z |-> None, error |-> None]

\* variant: roll and yaw exchanged
EulerAnglesResponse_swapped(euler) ==
    [roll |-> AsF64(euler.yaw), pitch |-> AsF64(euler.pitch), yaw |-> AsF64(euler.roll),
     error |-> None]

EulerAnglesResponse(euler) ==
    [roll |-> AsF64(euler.roll), pitch |-> AsF64(euler.pitch), yaw |-> AsF64(euler.yaw),
     error |-> None]

QuaternionResponse(quat) ==
    [w |-> AsF64(quat.w), x |-> AsF64(quat.x), y |-> AsF64(quat.y), z |-> AsF64(quat.z),
     error |-> None]

ReadResponse(o, v) == CASE o = "get_values" -> ImuValuesResponse(v)
                        [] o = "get_euler" -> EulerAnglesResponse(v)
                        [] o = "get_quaternion" -> QuaternionResponse(v)

CalibrateOperation ==
    [name |-> "operations/calibrate_imu/0", metadata |-> None, done |-> TRUE,
     result |-> None]

\* variant: zero() leaves the chip in the mode the reset put it in
ZeroMode_config == "Config"

\* the mode zero() re-applies after a reset
ZeroMode == "Ndof"

ZeroOkResponse == [success |-> TRUE, error |-> None]

\* variant: the early return is missing and the success response is reached
ZeroSetModeErrResponse_fallthrough(e) == [success |-> TRUE, error |-> None]

ZeroSetModeErrResponse(e) ==
    [success |-> FALSE,
     error |-> Some([code |-> "HardwareFailure",
                     message |-> Format("Failed to set IMU mode: ", e)])]

\* variant: the message leaves the driver's error out
ZeroResetErrResponse_noarg(e) ==
    [success |-> FALSE,
     error |-> Some([code |-> "HardwareFailure",
                     message |-> <<"Failed to zero IMU">>])]

ZeroResetErrResponse(e) ==
    [success |-> FALSE,
     error |-> Some([code |-> "HardwareFailure",
                     message |-> Format("Failed to zero IMU: ", e)])]

----------------------------------------------------------------------------
VARIABLES
    pc,      \* pc[p]: position of caller p
    op,      \* op[p]: the operation caller p invoked
    args,    \* args[p]: its arguments
    guards,  \* the callers holding a MutexGuard of self.imu
    mode,    \* operating mode of the chip
    calls,   \* calls[p]: driver calls issued by p's invocation, in order
    outc,    \* outc[p]: outcomes of the driver calls of calls[p] that ended
    res      \* res[p]: the value the invocation returns

vars == <<pc, op, args, guards, mode, calls, outc, res>>

Init ==
    /\ pc = [p \in Procs |-> "idle"]
    /\ op = [p \in Procs |-> "calibrate"]
    /\ args = [p \in Procs |-> NoArgs]
    /\ guards = {}
    /\ mode = "Ndof"
    /\ calls = [p \in Procs |-> <<>>]
    /\ outc = [p \in Procs |-> <<>>]
    /\ res = [p \in Procs |-> NoResult]

\* a caller invokes an operation of the adapter
Call(p) ==
    /\ pc[p] = "idle"
    /\ \E o \in Ops : \E a \in ArgsOf(o) :
         /\ op' = [op EXCEPT ![p] = o]
         /\ args' = [args EXCEPT ![p] = a]
         /\ pc' = [pc EXCEPT ![p] = IF NeedsLock(o) THEN "wait" ELSE "body"]
    /\ UNCHANGED <<guards, mode, calls, outc, res>>

\* variant: the handle is taken without waiting for the guard in use
Acquire_nowait(p) ==
    /\ pc[p] = "wait"
    /\ guards' = guards \cup {p}
    /\ pc' = [pc EXCEPT ![p] = "body"]
    /\ UNCHANGED <<op, args, mode, calls, outc, res>>

\* self.imu.lock().await completes
Acquire(p) ==
    /\ pc[p] = "wait"
    /\ guards = {}
    /\ guards' = guards \cup {p}
    /\ pc' = [pc EXCEPT ![p] = "body"]
    /\ UNCHANGED <<op, args, mode, calls, outc, res>>

\* what a driver call returns
DrvOk(v) == [ok |-> TRUE, val |-> v]
DrvOkUnit == [ok |-> TRUE]
DrvErr(e) == [ok |-> FALSE, val |-> e]

\* the start of a driver call fn(a), a the tuple of its arguments
Issue(p, fn, a) ==
    /\ calls' = [calls EXCEPT ![p] = Append(@, [fn |-> fn, args |-> a])]
    /\ pc' = [pc EXCEPT ![p] = "drv"]

\* the end of a driver call, which returns r and leaves the chip in mode m
Outcome(p, r, m) ==
    /\ outc' = [outc EXCEPT ![p] = Append(@, [ret |-> r, left |-> m])]
    /\ mode' = m

InFlight(p) == Len(calls[p]) > Len(outc[p])
CurFn(p) == calls[p][Len(calls[p])].fn

\* imu.get_linear_acceleration() / get_euler_angles() / get_quaternion() is called
StartRead(p) ==
    /\ pc[p] = "body"
    /\ op[p] \in ReadOps
    /\ Issue(p, ReadFn(op[p]), <<>>)
    /\ UNCHANGED <<op, args, guards, mode, outc, res>>

\* the read returns Ok(v): the response is built
EndReadOk(p) ==
    /\ pc[p] = "drv"
    /\ op[p] \in ReadOps
    /\ \E v \in DrvOutputs(CurFn(p)) :
         /\ Outcome(p, DrvOk(v), mode)
         /\ res' = [res EXCEPT ![p] = Ok(ReadResponse(op[p], v))]
    /\ pc' = [pc EXCEPT ![p] = "exit"]
    /\ UNCHANGED <<op, args, guards, calls>>

\* variant: the failure is reported in the response's error field
EndReadErr_embedded(p) ==
    /\ pc[p] = "drv"
    /\ op[p] \in ReadOps
    /\ \E e \in DrvErrors :
         /\ Outcome(p, DrvErr(e), mode)
         /\ res' = [res EXCEPT ![p] =
                      Ok([error |-> Some([code |-> "HardwareFailure",
                                          message |-> Format("", e)])])]
    /\ pc' = [pc EXCEPT ![p] = "exit"]
    /\ UNCHANGED <<op, args, guards, calls>>

\* the read returns Err(e): `?` returns it from the operation
EndReadErr(p) ==
    /\ pc[p] = "drv"
    /\ op[p] \in ReadOps
    /\ \E e \in DrvErrors :
         /\ Outcome(p, DrvErr(e), mode)
         /\ res' = [res EXCEPT ![p] = Err(e)]
    /\ pc' = [pc EXCEPT ![p] = "exit"]
    /\ UNCHANGED <<op, args, guards, calls>>

\* variant: calibrate() takes the handle lock like the other operations
Calibrate_locking(p) ==
    /\ pc[p] = "body"
    /\ op[p] = "calibrate"
    /\ guards = {}
    /\ res' = [res EXCEPT ![p] = Ok(CalibrateOperation)]
    /\ pc' = [pc EXCEPT ![p] = "done"]
    /\ UNCHANGED <<op, args, guards, mode, calls, outc>>

\* calibrate(): logs and returns the completed operation
Calibrate(p) ==
    /\ pc[p] = "body"
    /\ op[p] = "calibrate"
    /\ res' = [res EXCEPT ![p] = Ok(CalibrateOperation)]
    /\ pc' = [pc EXCEPT ![p] = "done"]
    /\ UNCHANGED <<op, args, guards, mode, calls, outc>>

\* zero(): imu.reset() is called
StartReset(p) ==
    /\ pc[p] = "body"
    /\ op[p] = "zero"
    /\ Issue(p, "reset", <<>>)
    /\ UNCHANGED <<op, args, guards, mode, outc, res>>

\* variant: the guard is given up between reset() and set_mode()
EndResetOk_unlock(p) ==
    /\ pc[p] = "drv"
    /\ CurFn(p) = "reset"
    /\ Outcome(p, DrvOkUnit, "Config")
    /\ pc' = [pc EXCEPT ![p] = "reset_ok"]
    /\ guards' = guards \ {p}
    /\ UNCHANGED <<op, args, calls, res>>

\* reset() returns Ok: the chip is in its unconfigured mode
EndResetOk(p) ==
    /\ pc[p] = "drv"
    /\ CurFn(p) = "reset"
    /\ Outcome(p, DrvOkUnit, "Config")
    /\ pc' = [pc EXCEPT ![p] = "reset_ok"]
    /\ UNCHANGED <<op, args, guards, calls, res>>

\* reset() returns Err(e): the chip was reset or not
EndResetErr(p) ==
    /\ pc[p] = "drv"
    /\ CurFn(p) = "reset"
    /\ \E e \in DrvErrors : \E m \in {mode, "Config"} :
         /\ Outcome(p, DrvErr(e), m)
         /\ res' = [res EXCEPT ![p] = Ok(ZeroResetErrResponse(e))]
    /\ pc' = [pc EXCEPT ![p] = "exit"]
    /\ UNCHANGED <<op, args, guards, calls>>

\* imu.set_mode(OperationMode::Ndof) is called
StartSetMode(p) ==
    /\ pc[p] = "reset_ok"
    /\ Issue(p, "set_mode", <<ZeroMode>>)
    /\ UNCHANGED <<op, args, guards, mode, outc, res>>

\* set_mode(m) returns Ok: the chip is in mode m
EndSetModeOk(p) ==
    /\ pc[p] = "drv"
    /\ CurFn(p) = "set_mode"
    /\ Outcome(p, DrvOkUnit, calls[p][Len(calls[p])].args[1])
    /\ res' = [res EXCEPT ![p] = Ok(ZeroOkResponse)]
    /\ pc' = [pc EXCEPT ![p] = "exit"]
    /\ UNCHANGED <<op, args, guards, calls>>

\* set_mode(m) returns Err(e): the chip is left in any mode
EndSetModeErr(p) ==
    /\ pc[p] = "drv"
    /\ CurFn(p) = "set_mode"
    /\ \E e \in DrvErrors : \E m \in Modes :
         /\ Outcome(p, DrvErr(e), m)
         /\ res' = [res EXCEPT ![p] = Ok(ZeroSetModeErrResponse(e))]
    /\ pc' = [pc EXCEPT ![p] = "exit"]
    /\ UNCHANGED <<op, args, guards, calls>>

\* variant: the guard is leaked when the operation returns an Err
Drop_leak(p) ==
    /\ pc[p] = "exit"
    /\ guards' = IF res[p].tag = "Err" THEN guards ELSE guards \ {p}
    /\ pc' = [pc EXCEPT ![p] = "done"]
    /\ UNCHANGED <<op, args, mode, calls, outc, res>>

\* the operation's scope ends: the MutexGuard is dropped and the call returns
Drop(p) ==
    /\ pc[p] = "exit"
    /\ guards' = guards \ {p}
    /\ pc' = [pc EXCEPT ![p] = "done"]
    /\ UNCHANGED <<op, args, mode, calls, outc, res>>

\* the caller takes the returned value
Return(p) ==
    /\ pc[p] = "done"
    /\ pc' = [pc EXCEPT ![p] = "idle"]
    /\ op' = [op EXCEPT ![p] = "calibrate"]
    /\ args' = [args EXCEPT ![p] = NoArgs]
    /\ calls' = [calls EXCEPT ![p] = <<>>]
    /\ outc' = [outc EXCEPT ![p] = <<>>]
    /\ res' = [res EXCEPT ![p] = NoResult]
    /\ UNCHANGED <<guards, mode>>

\* the steps of an invocation, once made
Step(p) ==
    \/ Acquire(p)
    \/ StartRead(p)
    \/ EndReadOk(p)
    \/ EndReadErr(p)
    \/ Calibrate(p)
    \/ StartReset(p)
    \/ EndResetOk(p)
    \/ EndResetErr(p)
    \/ StartSetMode(p)
    \/ EndSetModeOk(p)
    \/ EndSetModeErr(p)
    \/ Drop(p)

Next == \E p \in Procs : Call(p) \/ Step(p) \/ Return(p)

Spec == Init /\ [][Next]_vars

\* An environment with one value of each kind: callers pass no arguments to
\* zero(), the driver returns one output per read and one error, and a failed
\* call leaves the chip's mode as it was.
QuietOut(fn) == CHOOSE v \in DrvOutputs(fn) : TRUE
QuietErr == CHOOSE e \in DrvErrors : TRUE
QuietRet(c) == {DrvOkUnit, DrvErr(QuietErr)} \cup
               (IF c.fn \in {"reset", "set_mode"} THEN {} ELSE {DrvOk(QuietOut(c.fn))})
Quiet ==
    \A p \in Procs :
        /\ args[p] = NoArgs
        /\ \A i \in 1..Len(outc[p]) : outc[p][i].ret \in QuietRet(calls[p][i])

FairNext ==
    \E p \in Procs :
        \/ Call(p) /\ Quiet'
        \/ Acquire(p)
        \/ StartRead(p)
        \/ EndReadOk(p) /\ Quiet'
        \/ EndReadErr(p) /\ Quiet'
        \/ Calibrate(p)
        \/ StartReset(p)
        \/ EndResetOk(p)
        \/ EndResetErr(p) /\ Quiet' /\ mode' = mode
        \/ StartSetMode(p)
        \/ EndSetModeOk(p)
        \/ EndSetModeErr(p) /\ Quiet' /\ mode' = mode
        \/ Drop(p)
        \/ Return(p)

\* a fair lock, and driver calls that return: every invocation keeps taking
\* its steps, and a waiter that can acquire again and again does acquire
FairSpec ==
    /\ Init /\ [][FairNext]_vars
    /\ \A p \in Procs : WF_vars(Step(p)) /\ SF_vars(Acquire(p))

----------------------------------------------------------------------------
\* Properties

\* p is executing the body of its operation
InBody(p) == pc[p] \in {"body", "drv", "reset_ok", "exit"}

\* the invocation of p has returned or is about to (its result is built)
Finished(p) == pc[p] \in {"exit", "done"}

\* a zero() between the start of its reset() and the end of its set_mode()
InZeroWindow(p) == op[p] = "zero" /\ pc[p] \in {"drv", "reset_ok"}

Contains(msg, e) == \E i \in 1..Len(msg) : msg[i] = e

FnsOf(p) == [i \in 1..Len(calls[p]) |-> calls[p][i].fn]

\* C1: in every reachable state at most one chip-driver call is in flight
C1_DriverCallsSerialized ==
    \A p, q \in Procs : InFlight(p) /\ InFlight(q) => p = q

\* a driver call is in flight while another caller's operation waits for the lock
C1_Witness ==
    \E p, q \in Procs : p # q /\ InFlight(p) /\ pc[q] = "wait"

\* C2 (as stated): all five operations, calibrate included, hold the handle
\* lock for their full duration, and no two of them execute their bodies at
\* the same time
C2_AllFiveHoldLock ==
    /\ \A p \in Procs : InBody(p) => p \in guards
    /\ \A p, q \in Procs : InBody(p) /\ InBody(q) => p = q

\* C2 (amended): get_values, get_euler, get_quaternion and zero hold the
\* handle lock for their full duration and no two of these four execute their
\* bodies at the same time; calibrate holds no lock
C2_FourHoldLock ==
    /\ \A p \in Procs : InBody(p) /\ op[p] # "calibrate" => guards = {p}
    /\ \A p \in Procs : InBody(p) /\ op[p] = "calibrate" => p \notin guards
    /\ \A p, q \in Procs :
         InBody(p) /\ InBody(q) /\ op[p] # "calibrate" /\ op[q] # "calibrate" => p = q

\* the body of calibrate is executing while a zero() holds the lock
C2_Witness ==
    \E p, q \in Procs :
        /\ op[p] = "zero" /\ InBody(p) /\ p \in guards
        /\ op[q] = "calibrate" /\ InBody(q)

\* C3: calibrate() can return in every state, also while another operation
\* holds the lock; it returns Ok of the operation record named
\* "operations/calibrate_imu/0" with done = true and no metadata and no
\* result, issues no driver call and leaves the chip mode unchanged
C3_CalibrateStub ==
    /\ [](\A p \in Procs : pc[p] = "body" /\ op[p] = "calibrate" => ENABLED Calibrate(p))
    /\ [](\A p \in Procs :
            pc[p] = "done" /\ op[p] = "calibrate" =>
              /\ res[p].tag = "Ok"
              /\ res[p].val.name = "operations/calibrate_imu/0"
              /\ res[p].val.done = TRUE
              /\ res[p].val.metadata = None
              /\ res[p].val.result = None
              /\ calls[p] = <<>>)
    /\ [][\A p \in Procs :
            op[p] = "calibrate" /\ pc[p] = "body" /\ pc'[p] # pc[p] =>
              /\ pc'[p] = "done"
              /\ mode' = mode /\ calls' = calls /\ guards' = guards]_vars

\* calibrate returned while another caller holds the lock after a failed
\* driver call that left the chip unconfigured
C3_Witness ==
    \E p, q \in Procs :
        /\ p # q
        /\ pc[p] = "done" /\ op[p] = "calibrate" /\ res[p].tag = "Ok"
        /\ q \in guards /\ pc[q] = "exit" /\ ~outc[q][Len(outc[q])].ret.ok
        /\ mode = "Config"

\* C4: when reset() fails, zero() returns Ok of an ActionResponse with success
\* = false and a HardwareFailure error whose message contains the driver's
\* failure description, having issued exactly one reset() and no set_mode(),
\* whatever its arguments
C4_ZeroResetFailure ==
    \A p \in Procs :
        Finished(p) /\ op[p] = "zero" /\ ~outc[p][1].ret.ok =>
          /\ res[p].tag = "Ok"
          /\ res[p].val.success = FALSE
          /\ Len(res[p].val.error) = 1
          /\ res[p].val.error[1].code = "HardwareFailure"
          /\ Contains(res[p].val.error[1].message, outc[p][1].ret.val.desc)
          /\ FnsOf(p) = <<"reset">>

\* a zero() asked for two retries returned after its one reset() failed
C4_Witness ==
    \E p \in Procs :
        /\ pc[p] = "done" /\ op[p] = "zero" /\ ~outc[p][1].ret.ok
        /\ args[p].max_retries = Some(2)
        /\ res[p].val.success = FALSE

\* C5: when reset() succeeds and set_mode() fails, zero() returns Ok of an
\* ActionResponse with success = false and a HardwareFailure error, makes no
\* further driver call, and on return the chip mode is the one the failed
\* set_mode() left
C5_ZeroSetModeFailure ==
    \A p \in Procs :
        Finished(p) /\ op[p] = "zero" /\ Len(outc[p]) = 2 /\ ~outc[p][2].ret.ok =>
          /\ res[p].tag = "Ok"
          /\ res[p].val.success = FALSE
          /\ Len(res[p].val.error) = 1
          /\ res[p].val.error[1].code = "HardwareFailure"
          /\ FnsOf(p) = <<"reset", "set_mode">>
          /\ outc[p][1].ret.ok
          /\ pc[p] = "exit" => mode = outc[p][2].left

\* a zero() is returning after a failed set_mode() that changed nothing: the
\* chip is in the unconfigured state the reset put it in
C5_Witness ==
    \E p \in Procs :
        /\ pc[p] = "exit" /\ op[p] = "zero"
        /\ Len(outc[p]) = 2 /\ outc[p][1].ret.ok /\ ~outc[p][2].ret.ok
        /\ outc[p][2].left = outc[p][1].left
        /\ mode = "Config"
        /\ res[p].val.success = FALSE

\* C6: zero() returns success = true with no error exactly when its reset()
\* succeeded and then its set_mode(Ndof) succeeded; when it returns success =
\* true the chip is in NDOF mode
C6_ZeroSuccess ==
    \A p \in Procs :
        Finished(p) /\ op[p] = "zero" =>
          /\ res[p].tag = "Ok"
          /\ (res[p].val.success = TRUE /\ res[p].val.error = None)
               <=> /\ calls[p] = <<[fn |-> "reset", args |-> <<>>],
                                   [fn |-> "set_mode", args |-> <<"Ndof">>]>>
                   /\ Len(outc[p]) = 2 /\ outc[p][1].ret.ok /\ outc[p][2].ret.ok
          /\ res[p].val.success = TRUE \/ res[p].val.error = None
               => res[p].val.success = TRUE /\ res[p].val.error = None
          /\ pc[p] = "exit" /\ res[p].val.success = TRUE => mode = "Ndof"

\* a zero() is returning success after the chip went through the unconfigured state
C6_Witness ==
    \E p \in Procs :
        /\ pc[p] = "exit" /\ op[p] = "zero" /\ res[p].val.success = TRUE
        /\ outc[p][1].left = "Config" /\ mode = "Ndof"

\* C7: a read operation makes one driver read; if it fails the operation
\* returns Err carrying the driver's error and no response; if it succeeds the
\* operation returns a response whose error field is absent
C7_ReadFailurePropagates ==
    \A p \in Procs :
        Finished(p) /\ op[p] \in ReadOps =>
          /\ FnsOf(p) = <<ReadFn(op[p])>>
          /\ Len(outc[p]) = 1
          /\ ~outc[p][1].ret.ok => res[p].tag = "Err" /\ res[p].val = outc[p][1].ret.val
          /\ outc[p][1].ret.ok => res[p].tag = "Ok" /\ res[p].val.error = None
          /\ res[p].tag = "Ok" => res[p].val.error = None

\* a read returned a hard failure
C7_Witness ==
    \E p \in Procs :
        /\ pc[p] = "done" /\ op[p] \in ReadOps
        /\ ~outc[p][1].ret.ok /\ res[p].tag = "Err"

\* C8: a successful read returns the driver's outputs of its one call,
\* component by component, and get_values returns gyro x/y/z = 0 and
\* magnetometer x/y/z absent
C8_ReadValues ==
    \A p \in Procs :
        Finished(p) /\ op[p] \in ReadOps /\ outc[p][1].ret.ok =>
          LET r == res[p].val
              v == outc[p][1].ret.val
          IN  /\ op[p] = "get_values" =>
                   /\ Val64(r.accel_x) = Val32(v.x)
                   /\ Val64(r.accel_y) = Val32(v.y)
                   /\ Val64(r.accel_z) = Val32(v.z)
                   /\ r.gyro_x = [s |-> 0, e |-> 0, hi |-> 0, lo |-> 0]
                   /\ r.gyro_y = [s |-> 0, e |-> 0, hi |-> 0, lo |-> 0]
                   /\ r.gyro_z = [s |-> 0, e |-> 0, hi |-> 0, lo |-> 0]
                   /\ r.mag_x = None /\ r.mag_y = None /\ r.mag_z = None
              /\ op[p] = "get_euler" =>
                   /\ Val64(r.roll) = Val32(v.roll)
                   /\ Val64(r.pitch) = Val32(v.pitch)
                   /\ Val64(r.yaw) = Val32(v.yaw)
              /\ op[p] = "get_quaternion" =>
                   /\ Val64(r.w) = Val32(v.w)
                   /\ Val64(r.x) = Val32(v.x)
                   /\ Val64(r.y) = Val32(v.y)
                   /\ Val64(r.z) = Val32(v.z)

\* get_euler returned the angles read from an unconfigured chip, among them a
\* subnormal one
C8_Witness ==
    \E p \in Procs :
        /\ pc[p] = "done" /\ op[p] = "get_euler" /\ outc[p][1].ret.ok
        /\ outc[p][1].left = "Config"
        /\ outc[p][1].ret.val.roll = Fsub
        /\ res[p].tag = "Ok"

\* C9: the lock is held only by operations executing their bodies, so it is
\* free after every return; some pending operation can always take a step;
\* and under a fair lock and driver calls that return, every operation
\* waiting for the lock acquires it and completes
C9_LockReleased ==
    /\ [](\A p \in Procs : p \in guards => InBody(p) /\ op[p] # "calibrate")
    /\ []((\E p \in Procs : pc[p] \notin {"idle", "done"})
            => \E p \in Procs : ENABLED Step(p))
    /\ \A p \in Procs : (pc[p] = "wait") ~> (pc[p] = "done")

\* a read returned a hard failure and the caller that waited behind it holds
\* the lock
C9_Witness ==
    \E p, q \in Procs :
        /\ p # q
        /\ pc[p] = "done" /\ op[p] \in ReadOps /\ res[p].tag = "Err"
        /\ p \notin guards
        /\ q \in guards

\* C10: between the start of a zero()'s reset() and the end of its set_mode()
\* no other operation has a driver call in flight or holds the lock, and no
\* read issues its driver call to an unconfigured chip while a zero() is
\* between its two driver calls
C10_ZeroAtomic ==
    /\ [](\A p, q \in Procs :
            InZeroWindow(p) /\ q # p => ~InFlight(q) /\ q \notin guards)
    /\ [][\A q \in Procs :
            op[q] \in ReadOps /\ Len(calls'[q]) > Len(calls[q]) /\ mode = "Config"
              => \A p \in Procs : ~InZeroWindow(p)]_vars

\* a zero() is between its reset() and its set_mode(), the chip is
\* unconfigured, and a read waits for the lock
C10_Witness ==
    \E p, q \in Procs :
        /\ op[p] = "zero" /\ pc[p] = "reset_ok" /\ mode = "Config"
        /\ op[q] \in ReadOps /\ pc[q] = "wait"

====
